---- MODULE Spec2Model ----
(***************************************************************************)
(* Model of backend/api/parsing_routes.py: the parse-dispatch route        *)
(* (parse_document), the status route (get_task_status), the parser list   *)
(* (get_parsers), together with the broker queue, the result store and the *)
(* worker pool the routes talk to through the Celery client.               *)
(***************************************************************************)
EXTENDS Integers, Sequences, FiniteSets, TLC

\* ---------------------------------------------------------------- bounds
MaxCalls == 2        \* POST /parse calls in one behaviour
MaxPolls == 3        \* GET /parsing/tasks/{task_id} calls in one behaviour
MaxRedeliver == 1    \* broker redeliveries of an unacknowledged message
MaxSnapshots == 1    \* GET /parsing/tasks calls in one behaviour

\* ------------------------------------------------------------ vocabulary
None == "None"
NoTask == 0 - 1              \* no task id (a response that carries none)
NeverIssued == 0             \* a task id that no delay() call ever returns
TaskIds == 1..(MaxCalls + 1) \* ids the Celery client generates, in order

DocIds == {"doc-1", "missing-doc"}          \* request.document_id values
Documents == {"doc-1"}                      \* what db.get_document finds
ParserNames == {"markitdown", "docling", "unknown-parser"}
Requests == [document_id : DocIds, parser : ParserNames]

\* the registries ParserService may have been built with
Registries == {{"markitdown", "docling"}, {"docling"}}

\* celery.states.READY_STATES
READY_STATES == {"SUCCESS", "FAILURE", "REVOKED"}
Outcomes == {[status |-> "SUCCESS", result |-> "parsed content"],
             [status |-> "FAILURE", result |-> "parse error"]}

VARIABLES
  enable_parsers,  \* settings.features.enable_parsers
  exc_has_str,     \* the installed starlette's HTTPException defines __str__
  registry,        \* parser_service's supported parsers
  listed,          \* last GET /parsers response
  queue,           \* broker queue: messages published by .delay()
  reserved,        \* messages a worker has prefetched and not started, oldest first
  active,          \* messages a worker has claimed and not finished, oldest first
  redelivered,     \* number of broker redeliveries so far
  store,           \* result backend: task id -> meta, for the ids it has a record of
  storeLog,        \* per task id, the statuses the store recorded, in order
  reports,         \* per task id, the terminal states workers reported, in order
  nextId,          \* next task id the Celery client generates
  last,            \* request, environment and response of the last POST /parse
  issued,          \* task id and request of each 200 response of POST /parse, in order
  nCalls, nOk, nEnq, nLookups,  \* calls, 2xx returns, publishes, db lookups
  poll,            \* the status request in progress
  pollLog,         \* the responses GET /parsing/tasks/{task_id} returned, in order
  fleet,           \* the GET /parsing/tasks request in progress
  fleetResp,       \* the last GET /parsing/tasks response
  nSnaps           \* GET /parsing/tasks calls so far

vars == <<enable_parsers, exc_has_str, registry, listed, queue, active, redelivered, store,
          storeLog, reports, nextId, last, issued, nCalls, nOk, nEnq, nLookups,
          poll, pollLog, reserved, fleet, fleetResp, nSnaps>>

submitVars == <<last, issued, nCalls, nOk, nEnq, nLookups, nextId>>
workerVars == <<reserved, active, redelivered, store, storeLog, reports>>
pollVars == <<poll, pollLog>>
fleetVars == <<fleet, fleetResp, nSnaps>>

\* ------------------------------------------------------- parse_document
\* HTTPException(status_code, detail)
HTTPException(status_code, detail) ==
  [exc |-> "HTTPException", status_code |-> status_code, detail |-> detail]

\* any other exception, with its message
OtherException(msg) == [exc |-> "Exception", status_code |-> 0, detail |-> msg]

\* str(e): an HTTPException is rendered "<status_code>: <detail>" by a
\* starlette whose HTTPException defines __str__ (0.28 and later); under an
\* older one it is Exception.__str__ of an exception built from keyword
\* arguments only, the empty string. Any other exception gives its message.
StrExc(e, has_str) ==
  IF e.exc = "HTTPException"
  THEN (IF has_str THEN ToString(e.status_code) \o ": " \o e.detail ELSE "")
  ELSE e.detail

\* the HTTP response FastAPI builds from a raised HTTPException
ErrorResponse(e) ==
  [code |-> e.status_code, detail |-> e.detail, task_id |-> NoTask,
   status_url |-> <<>>]

\* the 200 response of line 53
OkResponse(id) ==
  [code |-> 200, detail |-> "", task_id |-> id,
   status_url |-> <<"parsing/tasks/", id>>]

\* result of running a piece of the handler: either a return value or a
\* raised exception, with the messages it published and the lookups it made
Returned(resp, msgs) ==
  [raised |-> FALSE, exc |-> OtherException(""), resp |-> resp,
   sent |-> msgs, lookups |-> 1]
Raised(e, nlook) ==
  [raised |-> TRUE, exc |-> e, resp |-> ErrorResponse(e), sent |-> <<>>,
   lookups |-> nlook]

\* delay() that has published the message when the broker error surfaces
DelayPublishesThenRaises(task, document_id, brokerUp, id) ==
  IF brokerUp
  THEN Returned(OkResponse(id),
                <<[id |-> id, task |-> task, document_id |-> document_id]>>)
  ELSE [raised |-> TRUE, exc |-> OtherException("broker connection refused"),
        resp |-> ErrorResponse(OtherException("broker connection refused")),
        sent |-> <<[id |-> id, task |-> task, document_id |-> document_id]>>,
        lookups |-> 1]

\* task.delay(document_id): publish one message under a fresh id and return
\* it, or raise without publishing when the broker does not accept it
Delay(task, document_id, brokerUp, id) ==
  IF brokerUp
  THEN Returned(OkResponse(id),
                <<[id |-> id, task |-> task, document_id |-> document_id]>>)
  ELSE Raised(OtherException("broker connection refused"), 1)

\* dispatch that derives the task id from the task name instead of drawing
\* a fresh one
DispatchFixedId(request, brokerUp, id) ==
  IF request.parser = "markitdown"
  THEN Delay("parse_markitdown_task", request.document_id, brokerUp, 1)
  ELSE IF request.parser = "docling"
  THEN Delay("parse_docling_task", request.document_id, brokerUp, 2)
  ELSE Raised(HTTPException(400, "Unsupported parser"), 1)

\* dispatch with the two tasks the wrong way round
DispatchSwapped(request, brokerUp, id) ==
  IF request.parser = "markitdown"
  THEN Delay("parse_docling_task", request.document_id, brokerUp, id)
  ELSE IF request.parser = "docling"
  THEN Delay("parse_markitdown_task", request.document_id, brokerUp, id)
  ELSE Raised(HTTPException(400, "Unsupported parser"), 1)

\* lines 46-51: the parser names the route dispatches
Dispatch(request, brokerUp, id) ==
  IF request.parser = "markitdown"
  THEN Delay("parse_markitdown_task", request.document_id, brokerUp, id)
  ELSE IF request.parser = "docling"
  THEN Delay("parse_docling_task", request.document_id, brokerUp, id)
  ELSE Raised(HTTPException(400, "Unsupported parser"), 1)

\* lines 38-53: the body of the try block
TryBody(request, dbRaises, brokerUp, id) ==
  IF dbRaises THEN Raised(OtherException("database error"), 1)
  ELSE IF request.document_id \notin Documents
  THEN Raised(HTTPException(404, "Document not found"), 1)
  ELSE Dispatch(request, brokerUp, id)

\* lines 55-57: except Exception as e -> HTTPException(500, str(e))
\* (what the try block published before raising stays published)
ExceptClause(r, has_str) ==
  IF r.raised
  THEN [Raised(HTTPException(500, StrExc(r.exc, has_str)), r.lookups)
          EXCEPT !.sent = r.sent]
  ELSE r

\* a handler without the feature gate
FeatureGateMissing(enabled) == FALSE

\* lines 32-36: the feature gate
FeatureDisabled(enabled) == ~enabled

\* lines 30-57: the whole handler
parse_document(enabled, has_str, request, dbRaises, brokerUp, id) ==
  IF FeatureDisabled(enabled)
  THEN Raised(HTTPException(501,
                "Document parsing is disabled in system configuration"), 0)
  ELSE ExceptClause(TryBody(request, dbRaises, brokerUp, id), has_str)

NoCall ==
  [request |-> [document_id |-> "doc-1", parser |-> "markitdown"],
   dbRaises |-> FALSE, brokerUp |-> TRUE, resp |-> OkResponse(NoTask)]

SubmitParse(request, dbRaises, brokerUp) ==
  /\ nCalls < MaxCalls
  /\ LET r == parse_document(enable_parsers, exc_has_str, request, dbRaises,
                             brokerUp, nextId)
     IN /\ last' = [request |-> request, dbRaises |-> dbRaises,
                    brokerUp |-> brokerUp, resp |-> r.resp]
        /\ issued' = IF r.raised THEN issued
                     ELSE Append(issued, [task_id |-> r.resp.task_id, request |-> request])
        /\ queue' = queue \o r.sent
        /\ nEnq' = nEnq + Len(r.sent)
        /\ nextId' = nextId + Len(r.sent)
        /\ nLookups' = nLookups + r.lookups
        /\ nOk' = nOk + (IF r.raised THEN 0 ELSE 1)
        /\ nCalls' = nCalls + 1
  /\ UNCHANGED <<enable_parsers, exc_has_str, registry, listed, workerVars, pollVars, fleetVars>>

\* ----------------------------------------------------------- get_parsers
get_parsers ==
  /\ listed' = [called |-> TRUE, parsers |-> registry]
  /\ UNCHANGED <<enable_parsers, exc_has_str, registry, queue, workerVars, submitVars, pollVars, fleetVars>>

\* ------------------------------------------------------- get_task_status
\* the exception a fetch raises when the result backend cannot be reached
BackendError == [raised |-> TRUE, status |-> "ConnectionError", result |-> None]

\* a meta record the backend returned
Meta(status, result) == [raised |-> FALSE, status |-> status, result |-> result]

\* a lookup that fails for an id the backend has no record of
GetTaskMetaUnknownFails(st, id, up) ==
  IF ~up THEN BackendError
  ELSE IF id \in DOMAIN st
  THEN [raised |-> FALSE, status |-> st[id].status, result |-> st[id].result]
  ELSE [raised |-> FALSE, status |-> "FAILURE", result |-> "task not found"]

\* a lookup that takes the record of a failed task for a missing one
GetTaskMetaDropsFailure(st, id, up) ==
  IF ~up THEN BackendError
  ELSE IF id \in DOMAIN st /\ st[id].status # "FAILURE"
  THEN [raised |-> FALSE, status |-> st[id].status, result |-> st[id].result]
  ELSE Meta("PENDING", None)

\* backend.get_task_meta(task_id): the stored meta, or the PENDING default
\* for an id the backend has no record of; the fetch raises when the backend
\* cannot be reached
GetTaskMeta(st, id, up) ==
  IF ~up THEN BackendError
  ELSE IF id \in DOMAIN st THEN Meta(st[id].status, st[id].result)
  ELSE Meta("PENDING", None)

\* line 65, result.status: one fetch of the meta, kept in the AsyncResult's
\* cache only when the fetched state is a ready state
StatusFetch(st, id, up) ==
  LET meta == GetTaskMeta(st, id, up)
  IN [id |-> id, raised |-> meta.raised, status |-> meta.status,
      cached |-> ~meta.raised /\ meta.status \in READY_STATES,
      result |-> meta.result]

\* line 66, result.ready() and result.result: answered from the cache when
\* there is one, from a second fetch of the meta otherwise
ReadyFetch(st, p, up) ==
  IF p.cached THEN Meta(p.status, p.result) ELSE GetTaskMeta(st, p.id, up)

\* line 66, result.result if result.ready() else None
ResultIfReady(st, p, up) ==
  LET meta == ReadyFetch(st, p, up)
  IN IF meta.status \in READY_STATES THEN meta.result ELSE None

\* the answer to a request whose handler raised: no handler catches the
\* exception and the framework answers 500 without a body of the handler
Unhandled == [code |-> 500, task_id |-> NoTask, status |-> None, result |-> None]

\* lines 63-67: the response, when both reads of the backend succeed
StatusResponse(st, p, up) ==
  IF p.raised \/ ReadyFetch(st, p, up).raised THEN Unhandled
  ELSE [code |-> 200, task_id |-> p.id, status |-> p.status,
        result |-> ResultIfReady(st, p, up)]

\* no status request in progress
Idle == [pc |-> "idle", fetch |-> StatusFetch(<<>>, NeverIssued, TRUE),
         term |-> FALSE, nrep |-> 0, unclaimed |-> FALSE, gone |-> FALSE]

\* the job has reached a terminal state in the store
Terminal(id) ==
  id \in TaskIds /\ \E k \in DOMAIN storeLog[id] : storeLog[id][k] \in READY_STATES

\* no worker has claimed the job yet
Unclaimed(id) == id \in TaskIds /\ storeLog[id] = <<>>

\* the store had a record of the job and has none any more
Expired(id) == id \in TaskIds /\ storeLog[id] # <<>> /\ id \notin DOMAIN store

\* what is kept of an answered request: the response, the id asked for,
\* whether every read of the backend the handler made succeeded, and what
\* was noted of the job when the request began (nothing of the latter for a
\* request that raised)
Answered(resp, id, up, p) ==
  IF resp.code = 200
  THEN [resp |-> resp, id |-> id, up |-> up, term |-> p.term, nrep |-> p.nrep,
        unclaimed |-> p.unclaimed, gone |-> p.gone]
  ELSE [resp |-> resp, id |-> id, up |-> up, term |-> FALSE, nrep |-> 0,
        unclaimed |-> FALSE, gone |-> FALSE]

\* the request reads the status; it is noted whether the job was terminal
\* by then, how many terminal reports had been delivered for it, whether it
\* was still unclaimed and whether its record had expired. A read that raises
\* ends the request at once.
GetStatusBegin(id, up) ==
  /\ poll.pc = "idle"
  /\ Len(pollLog) < MaxPolls
  /\ LET f == StatusFetch(store, id, up)
     IN IF f.raised
        THEN /\ pollLog' = Append(pollLog, Answered(Unhandled, id, up, Idle))
             /\ poll' = Idle
        ELSE /\ poll' = [pc |-> "fetched", fetch |-> f,
                         term |-> Terminal(id),
                         nrep |-> IF id \in TaskIds THEN Len(reports[id]) ELSE 0,
                         unclaimed |-> Unclaimed(id), gone |-> Expired(id)]
             /\ pollLog' = pollLog
  /\ UNCHANGED <<enable_parsers, exc_has_str, registry, listed, queue, workerVars,
                 submitVars, fleetVars>>

\* a handler that forgets the stored result once it has read a ready one
GetStatusEndForget(up) ==
  /\ poll.pc = "fetched"
  /\ pollLog' = Append(pollLog, Answered(StatusResponse(store, poll.fetch, up),
                                          poll.fetch.id,
                                          poll.fetch.cached \/ up, poll))
  /\ store' = IF StatusResponse(store, poll.fetch, up).result # None
              THEN [j \in DOMAIN store \ {poll.fetch.id} |-> store[j]]
              ELSE store
  /\ poll' = Idle
  /\ UNCHANGED <<enable_parsers, exc_has_str, registry, listed, queue, active,
                 redelivered, reserved, storeLog, reports, submitVars, fleetVars>>

\* a handler that waits for the task to finish before it answers
GetStatusEndWaits(up) ==
  /\ poll.pc = "fetched"
  /\ poll.fetch.id \in DOMAIN store
  /\ store[poll.fetch.id].status \in READY_STATES
  /\ pollLog' = Append(pollLog, Answered(StatusResponse(store, poll.fetch, up),
                                          poll.fetch.id,
                                          poll.fetch.cached \/ up, poll))
  /\ poll' = Idle
  /\ UNCHANGED <<enable_parsers, exc_has_str, registry, listed, queue, workerVars,
                 submitVars, fleetVars>>

\* the request reads the result and answers (a request answered from the
\* cache makes no second read, so the backend plays no part in it); a read
\* that raises ends the request with the 500 of an unhandled exception
GetStatusEnd(up) ==
  /\ poll.pc = "fetched"
  /\ pollLog' = Append(pollLog, Answered(StatusResponse(store, poll.fetch, up),
                                          poll.fetch.id,
                                          poll.fetch.cached \/ up, poll))
  /\ poll' = Idle
  /\ UNCHANGED <<enable_parsers, exc_has_str, registry, listed, queue, workerVars,
                 submitVars, fleetVars>>

\* ----------------------------------------------------- worker pool, store
\* the store's state machine: a claim is recorded once, the first terminal
\* write is kept and later writes for the same id are ignored

\* a store that does not record claims
StoreStartedNotRecorded(st, id) == st

\* the claim of a job recorded as STARTED, unless the job has a record
StoreStarted(st, id) ==
  IF id \in DOMAIN st THEN st
  ELSE [j \in DOMAIN st \cup {id} |->
          IF j = id THEN [status |-> "STARTED", result |-> None] ELSE st[j]]

\* a store in which the last terminal write wins
StoreTerminalLastWins(st, id, outcome) ==
  [j \in DOMAIN st \cup {id} |-> IF j = id THEN outcome ELSE st[j]]

StoreTerminal(st, id, outcome) ==
  IF id \in DOMAIN st /\ st[id].status \in READY_STATES THEN st
  ELSE [j \in DOMAIN st \cup {id} |-> IF j = id THEN outcome ELSE st[j]]

\* the statuses recorded for an id, extended when a write changed the record
Logged(log, st, st2, id) ==
  IF st2 = st THEN log ELSE [log EXCEPT ![id] = Append(@, st2[id].status)]

RemoveAt(s, i) == SubSeq(s, 1, i - 1) \o SubSeq(s, i + 1, Len(s))

\* the store drops the record of a finished job whose retention has run out
Expire(id) ==
  /\ id \in DOMAIN store
  /\ store[id].status \in READY_STATES
  /\ store' = [j \in DOMAIN store \ {id} |-> store[j]]
  /\ UNCHANGED <<enable_parsers, exc_has_str, registry, listed, queue, reserved,
                 active, redelivered, storeLog, reports, submitVars, pollVars,
                 fleetVars>>

\* a worker takes the oldest message and records the claim
WorkerClaim ==
  /\ queue # <<>>
  /\ LET m == Head(queue)
         st2 == StoreStarted(store, m.id)
     IN /\ queue' = Tail(queue)
        /\ active' = Append(active, m)
        /\ store' = st2
        /\ storeLog' = Logged(storeLog, store, st2, m.id)
  /\ UNCHANGED <<enable_parsers, exc_has_str, registry, listed, reserved, redelivered, reports,
                 submitVars, pollVars, fleetVars>>

\* a worker finishes an execution and reports its terminal state
WorkerFinish(i, outcome) ==
  /\ i \in 1..Len(active)
  /\ LET id == active[i].id
         st2 == StoreTerminal(store, id, outcome)
     IN /\ active' = RemoveAt(active, i)
        /\ store' = st2
        /\ storeLog' = Logged(storeLog, store, st2, id)
        /\ reports' = [reports EXCEPT ![id] = Append(@, outcome.status)]
  /\ UNCHANGED <<enable_parsers, exc_has_str, registry, listed, queue, reserved, redelivered,
                 submitVars, pollVars, fleetVars>>

\* the broker delivers a claimed, unacknowledged message a second time
Redeliver(i) ==
  /\ i \in 1..Len(active)
  /\ redelivered < MaxRedeliver
  /\ queue' = Append(queue, active[i])
  /\ redelivered' = redelivered + 1
  /\ UNCHANGED <<enable_parsers, exc_has_str, registry, listed, reserved, active, store,
                 storeLog, reports, submitVars, pollVars, fleetVars>>

\* a worker prefetches the oldest message without starting it
WorkerReserve ==
  /\ queue # <<>>
  /\ queue' = Tail(queue)
  /\ reserved' = Append(reserved, Head(queue))
  /\ UNCHANGED <<enable_parsers, exc_has_str, registry, listed, active, redelivered, store,
                 storeLog, reports, submitVars, pollVars, fleetVars>>

\* a worker starts a prefetched message and records the claim
WorkerStart(i) ==
  /\ i \in 1..Len(reserved)
  /\ LET m == reserved[i]
         st2 == StoreStarted(store, m.id)
     IN /\ reserved' = RemoveAt(reserved, i)
        /\ active' = Append(active, m)
        /\ store' = st2
        /\ storeLog' = Logged(storeLog, store, st2, m.id)
  /\ UNCHANGED <<enable_parsers, exc_has_str, registry, listed, queue, redelivered, reports,
                 submitVars, pollVars, fleetVars>>

\* --------------------------------------------------------- get_all_tasks
\* line 9: the tasks the workers have registered
RegisteredTasks == {"parse_markitdown_task", "parse_docling_task"}

\* what a sub-query can do: a reply, no reply within the timeout (None), or
\* an exception (broker connection lost); stats may also reply an empty dict
QueryOutcomes == {"reply", "none", "raise"}
StatsOutcomes == {"reply", "empty", "none", "raise"}

\* None, as the value of an inspect call that got no reply
NoReply == [replied |-> FALSE, items |-> {}]

\* the ids of the messages in a sequence
Ids(msgs) == {msgs[k].id : k \in DOMAIN msgs}

\* what the workers answer to the four inspect calls; the routes give no
\* eta or countdown, so no task is ever scheduled
PoolItems(field, act, res) ==
  IF field = "active" THEN Ids(act)
  ELSE IF field = "reserved" THEN Ids(res)
  ELSE IF field = "scheduled" THEN {}
  ELSE RegisteredTasks

\* a sub-query whose exception is taken for a missing reply
SubQueryAbsorbs(o, items) ==
  IF o = "reply" THEN [raised |-> FALSE, value |-> [replied |-> TRUE, items |-> items]]
  ELSE [raised |-> FALSE, value |-> NoReply]

\* lines 75-78, one inspect call: the reply, None, or an exception
SubQuery(o, items) ==
  IF o = "raise" THEN [raised |-> TRUE, value |-> NoReply]
  ELSE IF o = "none" THEN [raised |-> FALSE, value |-> NoReply]
  ELSE [raised |-> FALSE, value |-> [replied |-> TRUE, items |-> items]]

\* the four calls in the order the dict literal asks for the replies
FieldsReservedFirst == <<"reserved", "active", "scheduled", "registered">>

\* lines 74-79: the order in which the dict literal makes the four calls
Fields == <<"active", "reserved", "scheduled", "registered">>

\* line 83: celery.control.inspect().stats()
StatsQuery(o) ==
  IF o = "raise" THEN [raised |-> TRUE, value |-> NoReply]
  ELSE IF o = "none" THEN [raised |-> FALSE, value |-> NoReply]
  ELSE IF o = "empty" THEN [raised |-> FALSE, value |-> [replied |-> TRUE, items |-> {}]]
  ELSE [raised |-> FALSE, value |-> [replied |-> TRUE, items |-> {"worker1"}]]

\* a test for None instead of a test for truth
TruthyNotNone(v) == v.replied

\* line 84, if stats: None and the empty dict are false
Truthy(v) == v.replied /\ v.items # {}

\* the tasks dict before any call has answered
EmptyTasks ==
  [active |-> NoReply, reserved |-> NoReply, scheduled |-> NoReply,
   registered |-> NoReply, has_stats |-> FALSE, stats |-> NoReply]

\* a stats block without the inner except clause
StatsBlockPropagates(tasks, r) ==
  IF r.raised THEN [raised |-> TRUE, tasks |-> tasks]
  ELSE IF Truthy(r.value)
  THEN [raised |-> FALSE,
        tasks |-> [tasks EXCEPT !.has_stats = TRUE, !.stats = r.value]]
  ELSE [raised |-> FALSE, tasks |-> tasks]

\* lines 82-87: the inner try block; a bare except swallows every exception
StatsBlock(tasks, r) ==
  IF r.raised THEN [raised |-> FALSE, tasks |-> tasks]
  ELSE IF Truthy(r.value)
  THEN [raised |-> FALSE,
        tasks |-> [tasks EXCEPT !.has_stats = TRUE, !.stats = r.value]]
  ELSE [raised |-> FALSE, tasks |-> tasks]

\* lines 89-92: the dict returned, or the 500 of the outer except clause
FleetResponse(raised, tasks) ==
  IF raised THEN [code |-> 500, tasks |-> EmptyTasks]
  ELSE [code |-> 200, tasks |-> tasks]

\* no request in progress; done counts the inspect calls already made,
\* tried lists their outcomes, stayedRes, stayedAct and stayedHeld are the
\* jobs that were reserved, resp. active, resp. one of the two, at the moment
\* of every call made so far
FleetIdle ==
  [done |-> 0, tasks |-> EmptyTasks, tried |-> <<>>, stayedRes |-> {},
   stayedAct |-> {}, stayedHeld |-> {}]

\* no response yet, or a new request has begun since the last one
NoFleetResp ==
  [code |-> 0, tasks |-> EmptyTasks, tried |-> <<>>, stayedRes |-> {},
   stayedAct |-> {}, stayedHeld |-> {}]

\* the jobs of a set that were in it at every call so far, this one included
Stayed(first, before, now) == IF first THEN now ELSE before \cap now

\* one of the four inspect calls of lines 75-78; an exception ends the request
FleetQuery(o) ==
  /\ fleet.done < 4
  /\ fleet.done = 0 => nSnaps < MaxSnapshots
  /\ LET field == Fields[fleet.done + 1]
         r == SubQuery(o, PoolItems(field, active, reserved))
         first == fleet.done = 0
         seen == [tried |-> Append(fleet.tried, o),
                  stayedRes |-> Stayed(first, fleet.stayedRes, Ids(reserved)),
                  stayedAct |-> Stayed(first, fleet.stayedAct, Ids(active)),
                  stayedHeld |-> Stayed(first, fleet.stayedHeld,
                                        Ids(reserved) \cup Ids(active))]
     IN IF r.raised
        THEN /\ fleetResp' = [code |-> FleetResponse(TRUE, fleet.tasks).code,
                              tasks |-> FleetResponse(TRUE, fleet.tasks).tasks,
                              tried |-> seen.tried, stayedRes |-> seen.stayedRes,
                              stayedAct |-> seen.stayedAct,
                              stayedHeld |-> seen.stayedHeld]
             /\ fleet' = FleetIdle
        ELSE /\ fleet' = [done |-> fleet.done + 1,
                          tasks |-> [fleet.tasks EXCEPT ![field] = r.value],
                          tried |-> seen.tried, stayedRes |-> seen.stayedRes,
                          stayedAct |-> seen.stayedAct,
                          stayedHeld |-> seen.stayedHeld]
             /\ fleetResp' = IF first THEN NoFleetResp ELSE fleetResp
  /\ nSnaps' = IF fleet.done = 0 THEN nSnaps + 1 ELSE nSnaps
  /\ UNCHANGED <<enable_parsers, exc_has_str, registry, listed, queue, workerVars,
                 submitVars, pollVars>>

\* lines 81-89: the stats call and the return
FleetStats(o) ==
  /\ fleet.done = 4
  /\ LET b == StatsBlock(fleet.tasks, StatsQuery(o))
         resp == FleetResponse(b.raised, b.tasks)
     IN fleetResp' = [code |-> resp.code, tasks |-> resp.tasks,
                      tried |-> Append(fleet.tried, o),
                      stayedRes |-> fleet.stayedRes \cap Ids(reserved),
                      stayedAct |-> fleet.stayedAct \cap Ids(active),
                      stayedHeld |-> fleet.stayedHeld
                                       \cap (Ids(reserved) \cup Ids(active))]
  /\ fleet' = FleetIdle
  /\ UNCHANGED <<enable_parsers, exc_has_str, registry, listed, queue, workerVars,
                 submitVars, pollVars, nSnaps>>

\* ------------------------------------------------------------ the system
Init ==
  /\ enable_parsers \in BOOLEAN
  /\ exc_has_str \in BOOLEAN
  /\ registry \in Registries
  /\ listed = [called |-> FALSE, parsers |-> {}]
  /\ queue = <<>>
  /\ reserved = <<>>
  /\ active = <<>>
  /\ redelivered = 0
  /\ store = <<>>
  /\ storeLog = [id \in TaskIds |-> <<>>]
  /\ reports = [id \in TaskIds |-> <<>>]
  /\ issued = <<>>
  /\ nextId = 1
  /\ last = NoCall
  /\ nCalls = 0 /\ nOk = 0 /\ nEnq = 0 /\ nLookups = 0
  /\ poll = Idle
  /\ pollLog = <<>>
  /\ fleet = FleetIdle
  /\ fleetResp = NoFleetResp
  /\ nSnaps = 0

Workers ==
  \/ WorkerClaim
  \/ \E i \in 1..(MaxCalls + MaxRedeliver), outcome \in Outcomes : WorkerFinish(i, outcome)
  \/ \E i \in 1..(MaxCalls + MaxRedeliver) : Redeliver(i)

\* the submission path, with every request and every failure of the
\* database and of the broker
Next ==
  \/ \E request \in Requests, dbRaises \in BOOLEAN, brokerUp \in BOOLEAN :
        SubmitParse(request, dbRaises, brokerUp)
  \/ get_parsers
  \/ Workers

Spec == Init /\ [][Next]_vars

\* the requests parse_document accepts when the registry is whole
ValidRequests == [document_id : Documents, parser : {"markitdown", "docling"}]

\* parsers enabled and both parse tasks registered (no request of the paths
\* below raises inside parse_document, so one rendering of str(e) is kept)
InitStatus ==
  Init /\ enable_parsers /\ exc_has_str /\ registry = {"markitdown", "docling"}

\* the status path: accepted submissions (of one request, the parser plays
\* no part in the status of a job), workers and status requests
NextStatus ==
  \/ SubmitParse([document_id |-> "doc-1", parser |-> "markitdown"], FALSE, TRUE)
  \/ \E id \in 0..(nextId - 1), up \in BOOLEAN : GetStatusBegin(id, up)
  \/ \E up \in BOOLEAN : GetStatusEnd(up)
  \/ Workers

SpecStatus == InitStatus /\ [][NextStatus]_vars

\* the report of a successful execution
Succeeded == [status |-> "SUCCESS", result |-> "parsed content"]

\* the inspection path: accepted submissions, workers that prefetch, start
\* and finish with success, and the fleet request with every outcome of its
\* sub-queries
NextFleet ==
  \/ \E request \in ValidRequests : SubmitParse(request, FALSE, TRUE)
  \/ WorkerReserve
  \/ \E i \in 1..MaxCalls : WorkerStart(i)
  \/ \E i \in 1..MaxCalls : WorkerFinish(i, Succeeded)
  \/ \E o \in QueryOutcomes : FleetQuery(o)
  \/ \E o \in StatsOutcomes : FleetStats(o)

SpecFleet == InitStatus /\ [][NextFleet]_vars

\* the status path with a store that expires the records of finished jobs
\* (every execution is delivered once)
NextExpiry ==
  \/ SubmitParse([document_id |-> "doc-1", parser |-> "markitdown"], FALSE, TRUE)
  \/ WorkerClaim
  \/ \E i \in 1..MaxCalls, outcome \in Outcomes : WorkerFinish(i, outcome)
  \/ \E id \in TaskIds : Expire(id)
  \/ \E id \in 0..(nextId - 1), up \in BOOLEAN : GetStatusBegin(id, up)
  \/ \E up \in BOOLEAN : GetStatusEnd(up)

SpecExpiry == InitStatus /\ [][NextExpiry]_vars

\* the request path when no worker ever takes a step; a handler that has
\* started runs to its end
NextNoWorkers ==
  \/ \E request \in ValidRequests : SubmitParse(request, FALSE, TRUE)
  \/ \E id \in 0..(nextId - 1), up \in BOOLEAN : GetStatusBegin(id, up)
  \/ \E up \in BOOLEAN : GetStatusEnd(up)

SpecNoWorkers ==
  InitStatus /\ [][NextNoWorkers]_vars /\ WF_vars(\E up \in BOOLEAN : GetStatusEnd(up))

\* the read paths together: submissions of one request, workers that finish
\* with success, status requests and answered fleet requests
NextReads ==
  \/ SubmitParse([document_id |-> "doc-1", parser |-> "markitdown"], FALSE, TRUE)
  \/ WorkerClaim
  \/ \E i \in 1..MaxCalls : WorkerFinish(i, Succeeded)
  \/ \E id \in 0..(nextId - 1), up \in BOOLEAN : GetStatusBegin(id, up)
  \/ \E up \in BOOLEAN : GetStatusEnd(up)
  \/ FleetQuery("reply")
  \/ FleetStats("reply")

SpecReads == InitStatus /\ [][NextReads]_vars

TypeOK ==
  /\ enable_parsers \in BOOLEAN
  /\ exc_has_str \in BOOLEAN
  /\ registry \in Registries
  /\ nextId \in TaskIds
  /\ nCalls \in 0..MaxCalls
  /\ nOk \in 0..MaxCalls /\ nEnq \in 0..MaxCalls /\ nLookups \in 0..MaxCalls
  /\ poll.pc \in {"idle", "fetched"}
  /\ Len(pollLog) <= MaxPolls
  /\ redelivered \in 0..MaxRedeliver

\* ---------------------------------------------------------------- claims
\* the ids of the jobs that are queued, claimed or recorded in the store
TrackedIds ==
  {queue[i].id : i \in DOMAIN queue} \cup {reserved[i].id : i \in DOMAIN reserved}
    \cup {active[i].id : i \in DOMAIN active} \cup DOMAIN store

\* the last POST /parse ran past the feature gate and the lookup returned
LastLookedUp == nCalls > 0 /\ enable_parsers /\ ~last.dbRaises

\* the registry lists exactly the parsers lines 46-49 dispatch
RegistryMatches == registry = {"markitdown", "docling"}

LifecycleStates == {"PENDING", "STARTED", "SUCCESS", "FAILURE"}

Rank(status) ==
  IF status = "PENDING" THEN 0 ELSE IF status = "STARTED" THEN 1 ELSE 2

\* pairs of responses the handler returned (requests that died of an
\* unreachable backend left aside) to the same task id, the first returned
\* before the second
LaterPolls ==
  {ij \in (DOMAIN pollLog) \X (DOMAIN pollLog) :
     /\ ij[1] < ij[2]
     /\ pollLog[ij[1]].resp.code = 200 /\ pollLog[ij[2]].resp.code = 200
     /\ pollLog[ij[1]].resp.task_id = pollLog[ij[2]].resp.task_id}

\* C1: after any sequence of POST /parse calls the number of messages
\* published equals the number of successful calls (one publish per success,
\* none on a failure path), and so does the number of jobs that are queued,
\* claimed or recorded in the store.
C1_OneEnqueuePerSuccess ==
  /\ nEnq = nOk
  /\ Cardinality(TrackedIds) = nOk

\* a success followed by a call the broker rejected
C1_Witness ==
  /\ nCalls = 2 /\ nOk = 1
  /\ last.resp.code = 500 /\ ~last.brokerUp /\ ~last.dbRaises
  /\ last.request.document_id \in Documents
  /\ last.request.parser = "docling"

\* C2: a request for a nonexistent document and an unsupported parser is
\* answered with the not-found kind (404).
C2_NotFoundBeforeUnsupported ==
  (LastLookedUp /\ last.request = [document_id |-> "missing-doc",
                                   parser |-> "unknown-parser"])
    => last.resp.code = 404

\* C3: with the feature enabled a missing document is reported as 404, an
\* existing document with an unregistered parser as 400 and a broker failure
\* as 500, three distinct kinds (stated for a registry that lists the
\* parsers the route dispatches).
C3_DistinguishableKinds ==
  (LastLookedUp /\ RegistryMatches) =>
    /\ last.request.document_id \notin Documents => last.resp.code = 404
    /\ (last.request.document_id \in Documents
          /\ last.request.parser \notin registry) => last.resp.code = 400
    /\ (last.request.document_id \in Documents
          /\ last.request.parser \in registry
          /\ ~last.brokerUp) => last.resp.code = 500

\* C4: with the feature flag off every POST /parse is answered 501 and no
\* document lookup, no publish and no change of the queue or the store happens.
C4_DisabledTouchesNothing ==
  ~enable_parsers =>
    /\ nCalls > 0 => last.resp.code = 501
    /\ nLookups = 0 /\ nEnq = 0 /\ nOk = 0
    /\ queue = <<>> /\ DOMAIN store = {} /\ issued = <<>>

\* with the flag off, calls for an existing document and a dispatched parser
C4_Witness ==
  /\ ~enable_parsers /\ nCalls >= 2
  /\ last.request = [document_id |-> "doc-1", parser |-> "markitdown"]
  /\ last.brokerUp /\ ~last.dbRaises

\* C5: the task ids returned by successful POST /parse calls are pairwise
\* different, also for a repeated (document_id, parser) pair, and they are
\* exactly the ids of the published messages, one per successful call.
C5_TaskIdsUnique ==
  /\ \A i, j \in DOMAIN issued : i # j => issued[i].task_id # issued[j].task_id
  /\ {issued[i].task_id : i \in DOMAIN issued} = TrackedIds
  /\ Len(issued) = nEnq

\* the same request submitted twice with success
C5_Witness ==
  /\ Len(issued) >= 2
  /\ issued[1].request = issued[2].request

\* C6: for an existing document POST /parse is rejected as unsupported (400)
\* exactly when the parser is not in the registry, and accepted otherwise
\* (stated for a registry that lists the parsers the route dispatches).
C6_RejectsExactlyUnregistered ==
  (LastLookedUp /\ RegistryMatches /\ last.brokerUp
     /\ last.request.document_id \in Documents) =>
    /\ last.request.parser \in registry => last.resp.code = 200
    /\ last.request.parser \notin registry => last.resp.code = 400

\* the poll asked for an id the store has no record of for good: a
\* never-issued id, or the id of a job whose record has expired
UnknownId(e) == e.id = NeverIssued \/ e.gone

\* C7 as stated: a poll of a never-issued or expired task id (its reads of
\* the backend succeeding) is answered, not failed, and with a state of its
\* own, none of the lifecycle states of an issued job.
C7_UnknownIsOwnState ==
  \A i \in DOMAIN pollLog :
    (UnknownId(pollLog[i]) /\ pollLog[i].up)
      => /\ pollLog[i].resp.code = 200
         /\ pollLog[i].resp.status \notin LifecycleStates

\* C7 amended: a poll of a never-issued or expired task id (its reads of the
\* backend succeeding) is answered, not failed, with PENDING and a null
\* result, the response an issued job gets before a worker claims it.
C7_UnknownReadsPending ==
  \A i \in DOMAIN pollLog :
    (UnknownId(pollLog[i]) /\ pollLog[i].up)
      => /\ pollLog[i].resp.code = 200
         /\ pollLog[i].resp.task_id = pollLog[i].id
         /\ pollLog[i].resp.status = "PENDING"
         /\ pollLog[i].resp.result = None

\* a never-issued id, an expired job that had succeeded and an issued,
\* unclaimed job were polled and got the same state
C7_Witness ==
  \E i, j, k \in DOMAIN pollLog :
    /\ pollLog[i].id = NeverIssued /\ pollLog[i].resp.code = 200
    /\ pollLog[j].gone /\ pollLog[j].resp.code = 200
    /\ "SUCCESS" \in {storeLog[pollLog[j].id][n] : n \in DOMAIN storeLog[pollLog[j].id]}
    /\ pollLog[k].unclaimed /\ pollLog[k].resp.code = 200
    /\ pollLog[i].resp.status = pollLog[j].resp.status
    /\ pollLog[i].resp.status = pollLog[k].resp.status

\* C8: the states successive polls report for one task id only move forward
\* along PENDING -> STARTED -> (SUCCESS | FAILURE) and never leave a terminal
\* state, and the store records a terminal state only after STARTED.
C8_OnlyForward ==
  /\ \A ij \in LaterPolls :
       LET a == pollLog[ij[1]].resp.status
           b == pollLog[ij[2]].resp.status
       IN Rank(a) <= Rank(b) /\ (a \in READY_STATES => b = a)
  /\ \A id \in TaskIds :
       storeLog[id] \in {<<>>, <<"STARTED">>, <<"STARTED", "SUCCESS">>,
                         <<"STARTED", "FAILURE">>}

\* three polls of one job saw PENDING, STARTED and a terminal state
C8_Witness ==
  \E id \in TaskIds :
    /\ Len(pollLog) = 3
    /\ \A i \in 1..3 : pollLog[i].resp.task_id = id
    /\ pollLog[1].resp.status = "PENDING"
    /\ pollLog[2].resp.status = "STARTED"
    /\ pollLog[3].resp.status \in READY_STATES

\* C9: once a poll has reported SUCCESS or FAILURE for a task id, every later
\* poll reports the same terminal state and the same result, whatever
\* duplicate terminal reports workers deliver in between.
C9_FirstTerminalWins ==
  \A ij \in LaterPolls :
    pollLog[ij[1]].resp.status \in READY_STATES =>
      /\ pollLog[ij[2]].resp.status = pollLog[ij[1]].resp.status
      /\ pollLog[ij[2]].resp.result = pollLog[ij[1]].resp.result

\* a terminal state was polled, a second, contradicting terminal report was
\* delivered for the job, and the job was polled again
C9_Witness ==
  \E ij \in LaterPolls :
    LET id == pollLog[ij[1]].resp.task_id
    IN /\ id \in TaskIds
       /\ pollLog[ij[1]].resp.status \in READY_STATES
       /\ pollLog[ij[1]].nrep = 1 /\ pollLog[ij[2]].nrep = 2
       /\ reports[id][1] # reports[id][2]

\* C10: all polls made after a job became terminal and answered by the
\* handler (its read of the backend succeeded) return the same response
\* (task id, state and result).
C10_TerminalReadsIdentical ==
  \A ij \in LaterPolls :
    (pollLog[ij[1]].term /\ pollLog[ij[2]].term)
      => pollLog[ij[2]].resp = pollLog[ij[1]].resp

\* a terminal job polled twice with another submission in between
C10_Witness ==
  \E ij \in LaterPolls :
    /\ pollLog[ij[1]].term /\ pollLog[ij[2]].term
    /\ pollLog[ij[1]].resp.result # None
    /\ nCalls >= 2

\* a GET /parsing/tasks request has been answered
FleetAnswered == fleetResp.code # 0

\* the sub-queries among the first four that were made
Made == 1..(IF Len(fleetResp.tried) < 4 THEN Len(fleetResp.tried) ELSE 4)

\* C11 as stated: when one of the active, reserved, scheduled and registered
\* sub-queries fails, by an exception or by a missing reply, the request
\* still makes the other calls and returns a snapshot.
C11_SubQueriesIndependent ==
  (FleetAnswered /\ \E k \in Made : fleetResp.tried[k] \in {"none", "raise"})
    => fleetResp.code = 200 /\ Len(fleetResp.tried) = 5

\* C11 amended: a sub-query that gets no reply leaves its field null and the
\* request goes on; a sub-query that raises ends the request with a 500 and
\* the calls after it are not made. The request returns a snapshot exactly
\* when none of the four raised, and then every answered field is filled.
C11_OnlyMissingRepliesTolerated ==
  FleetAnswered =>
    /\ fleetResp.code = 200 <=> \A k \in Made : fleetResp.tried[k] # "raise"
    /\ fleetResp.code = 200 =>
         /\ Len(fleetResp.tried) = 5
         /\ \A k \in 1..4 :
              fleetResp.tasks[Fields[k]].replied <=> fleetResp.tried[k] = "reply"
    /\ fleetResp.code # 200 =>
         /\ fleetResp.code = 500
         /\ Len(fleetResp.tried) <= 4
         /\ fleetResp.tried[Len(fleetResp.tried)] = "raise"

\* the reserved query got no reply and the snapshot still lists an active job
C11_Witness ==
  /\ fleetResp.code = 200
  /\ fleetResp.tried[2] = "none"
  /\ fleetResp.tasks.active.items # {}
  /\ fleetResp.tasks.registered.replied

\* C12: when the stats call fails and the four other calls are answered, the
\* request returns the four collections, without a stats field, and no error.
C12_StatsFailureAbsorbed ==
  (FleetAnswered /\ Len(fleetResp.tried) = 5
     /\ (\A k \in 1..4 : fleetResp.tried[k] = "reply")
     /\ fleetResp.tried[5] \in {"raise", "none"}) =>
    /\ fleetResp.code = 200
    /\ ~fleetResp.tasks.has_stats
    /\ \A k \in 1..4 : fleetResp.tasks[Fields[k]].replied
    /\ fleetResp.tasks.registered.items = RegisteredTasks

\* the stats call raised after a reserved job had been listed
C12_Witness ==
  /\ FleetAnswered /\ Len(fleetResp.tried) = 5
  /\ fleetResp.tried[5] = "raise"
  /\ \A k \in 1..4 : fleetResp.tried[k] = "reply"
  /\ fleetResp.tasks.reserved.items # {}

\* C16 as stated: no job is in two categories of one snapshot, and no job
\* that a worker held (reserved or running) at the moment of every call is
\* missing from all of them.
C16_PointInTime ==
  (fleetResp.code = 200 /\ \A k \in 1..3 : fleetResp.tried[k] = "reply") =>
    /\ fleetResp.tasks.active.items \cap fleetResp.tasks.reserved.items = {}
    /\ fleetResp.stayedHeld \subseteq
         (fleetResp.tasks.active.items \cup fleetResp.tasks.reserved.items
            \cup fleetResp.tasks.scheduled.items)

\* C16 amended: the collections are read one after the other, active first.
\* No job delivered once is in two categories of one snapshot, and a job
\* that stayed reserved, or stayed active, over all the calls is listed in
\* that category; a job started between the calls may be in none.
C16_ReadOneAfterTheOther ==
  (fleetResp.code = 200 /\ \A k \in 1..3 : fleetResp.tried[k] = "reply") =>
    /\ fleetResp.tasks.active.items \cap fleetResp.tasks.reserved.items = {}
    /\ fleetResp.stayedAct \subseteq fleetResp.tasks.active.items
    /\ fleetResp.stayedRes \subseteq fleetResp.tasks.reserved.items

\* one job stayed active, and another, started during the request, is in
\* no category
C16_Witness ==
  /\ fleetResp.code = 200 /\ \A k \in 1..3 : fleetResp.tried[k] = "reply"
  /\ fleetResp.stayedAct # {}
  /\ \E id \in fleetResp.stayedHeld :
       id \notin fleetResp.tasks.active.items \cup fleetResp.tasks.reserved.items

\* C19: a snapshot has a stats field exactly when the stats call returned a
\* non-empty value; None and the empty dict are left out like a failure, and
\* the four other fields were all asked for.
C19_StatsIffNonEmpty ==
  fleetResp.code = 200 =>
    /\ fleetResp.tasks.has_stats <=> fleetResp.tried[5] = "reply"
    /\ fleetResp.tasks.has_stats => fleetResp.tasks.stats.items # {}
    /\ ~fleetResp.tasks.has_stats => fleetResp.tasks.stats = NoReply
    /\ Len(fleetResp.tried) = 5

\* the stats call returned an empty dict and the snapshot has no stats field
C19_Witness ==
  /\ fleetResp.code = 200
  /\ fleetResp.tried[5] = "empty"
  /\ ~fleetResp.tasks.has_stats
  /\ fleetResp.tasks.active.replied

\* C13: with no worker taking any step, every accepted POST /parse has
\* returned its task id and every status request that has begun is answered.
C13_NoWaitOnWorkers ==
  /\ [](nCalls > 0 => (last.resp.code = 200 /\ last.resp.task_id \in TaskIds))
  /\ [](poll.pc = "fetched" => <>(poll.pc = "idle"))

\* an issued job was polled and answered while it is still in the queue and
\* the store has no record at all
C13_Witness ==
  /\ poll.pc = "idle" /\ DOMAIN store = {} /\ active = <<>> /\ reserved = <<>>
  /\ \E i \in DOMAIN pollLog, k \in DOMAIN queue :
       pollLog[i].resp.task_id = queue[k].id

\* the first terminal state the store recorded for the job is SUCCESS
RecordedSuccess(id) ==
  \E k \in DOMAIN storeLog[id] :
    /\ storeLog[id][k] = "SUCCESS"
    /\ \A j \in 1..(k - 1) : storeLog[id][j] \notin READY_STATES

\* C14: a poll of an issued job made before any worker claimed it returns
\* PENDING with a null result, a poll made after a worker recorded success
\* returns SUCCESS with the result, and every poll of an issued job returns a
\* lifecycle state (polls the handler answered, its reads of the backend
\* having succeeded).
C14_PendingThenSuccess ==
  \A i \in DOMAIN pollLog :
    LET e == pollLog[i]
        id == e.resp.task_id
    IN id \in TaskIds =>
         /\ e.unclaimed => (e.resp.status = "PENDING" /\ e.resp.result = None)
         /\ (e.term /\ RecordedSuccess(id)) =>
              (e.resp.status = "SUCCESS" /\ e.resp.result = "parsed content")
         /\ e.resp.code = 200 /\ e.resp.status \in LifecycleStates

\* C15: a step of a status request or of a fleet request changes neither the
\* queue, the jobs workers hold, the store, nor the registry or the ids issued.
C15_ReadsArePure ==
  [][(poll' # poll \/ pollLog' # pollLog \/ fleet' # fleet
        \/ fleetResp' # fleetResp \/ nSnaps' # nSnaps)
       => UNCHANGED <<queue, reserved, active, redelivered, store, storeLog,
                      reports, registry, issued, nextId>>]_vars

\* a terminal job has been polled and a fleet request answered while another
\* job is running
C15_Witness ==
  /\ fleetResp.code = 200 /\ fleetResp.tasks.active.items # {}
  /\ active # <<>>
  /\ \E i \in DOMAIN pollLog : pollLog[i].term

\* the task a parser name stands for
TaskFor(parser) ==
  IF parser = "markitdown" THEN "parse_markitdown_task" ELSE "parse_docling_task"

\* the messages in the broker queue or held by a worker
Messages ==
  {queue[k] : k \in DOMAIN queue} \cup {reserved[k] : k \in DOMAIN reserved}
    \cup {active[k] : k \in DOMAIN active}

\* C17: every published message carries the document id of the request whose
\* response returned the message's id and names the task of that request's
\* parser; the status_url of a 200 response is "parsing/tasks/" followed by
\* the task id it returns, and that id is the id of a tracked job.
C17_UnitCarriesRequest ==
  /\ \A m \in Messages :
       \E k \in DOMAIN issued :
         /\ issued[k].task_id = m.id
         /\ m.document_id = issued[k].request.document_id
         /\ m.task = TaskFor(issued[k].request.parser)
  /\ (nCalls > 0 /\ last.resp.code = 200) =>
       /\ last.resp.status_url = <<"parsing/tasks/", last.resp.task_id>>
       /\ last.resp.task_id = issued[Len(issued)].task_id
       /\ last.request = issued[Len(issued)].request
       /\ last.resp.task_id \in TrackedIds

\* a docling request was accepted and its message is in the queue
C17_Witness ==
  /\ nCalls > 0 /\ last.resp.code = 200 /\ last.request.parser = "docling"
  /\ \E k \in DOMAIN queue :
       queue[k].id = last.resp.task_id /\ queue[k].task = "parse_docling_task"

\* C18: in every status response the result is non-null only if the reported
\* state is SUCCESS or FAILURE, and a FAILURE response carries the error.
C18_ResultOnlyWhenTerminal ==
  \A i \in DOMAIN pollLog :
    /\ pollLog[i].resp.result # None
         => pollLog[i].resp.status \in {"SUCCESS", "FAILURE"}
    /\ pollLog[i].resp.status = "FAILURE" => pollLog[i].resp.result = "parse error"

====
